---- MODULE Spec2Model ----
(***************************************************************************)
(* Model of neural_sp's attention model and of its training scripts:       *)
(*   models/pytorch/attention/attention_seq2seq.py (AttentionSeq2seq):     *)
(*     __init__, _init_decoder_state, decode_infer, _decode_infer_greedy,  *)
(*     _decode_infer_beam, the auxiliary CTC branch of forward and the     *)
(*     teacher-forced pass (_decode_train and the XE loss of forward);     *)
(*   neural_sp/bin/asr/train.py and                                        *)
(*   examples/swbd/training/train_hierarchical.py: the training loop.      *)
(* Each part has its own specification (Spec, SpecTwice, SpecCTC,          *)
(* SpecCtor, SpecTF, SpecTrain with SpecTrainFair, SpecLR); the variables  *)
(* of the other parts stay idle.                                           *)
(*                                                                         *)
(* The neural layers (encoder, decoder cell, attention, softmax) are not   *)
(* part of the file; they are an uninterpreted deterministic function from *)
(* (utterance, previous token) to a distribution over the vocabulary, and  *)
(* every run fixes one such function per utterance of the batch.  Spec     *)
(* decodes with the module in evaluation mode (dropout is the identity);   *)
(* SpecTwice decodes greedily in either mode.  The dataset and the         *)
(* evaluators of the scripts are collaborators: the batches per epoch and  *)
(* the dev metrics are inputs.  The learning rate controller is not part   *)
(* of the files either; the rates it returns follow its description.       *)
(*                                                                         *)
(* Scores.  A log-probability log(k / ProbGrid) is represented by its      *)
(* numerator k (0 stands for NEG_INF).  The representation is monotone, so *)
(* every comparison and every sort of the code is preserved, and a score   *)
(* is at most LOG_1 = 0 exactly when its numerator is at most ProbGrid.    *)
(***************************************************************************)
EXTENDS Integers, Sequences, FiniteSets, TLC

\* ------------------------------------------------------------------ bounds
MaxBatch == 2        \* utterances per batch: 1..MaxBatch
MaxBeam == 2         \* beam_width: 1..MaxBeam
MaxLen == 3          \* max_decode_length: 0..MaxLen
ProbGrid == 4        \* probabilities are multiples of 1 / ProbGrid

\* ------------------------------------------------- constructor (__init__)
num_classes == 1                     \* supplied class count (without <SOS>, <EOS>)
sos_index == num_classes
eos_index == num_classes + 1
Vocab == 0 .. (num_classes + 1)      \* the num_classes + 2 output classes

LOG_1 == ProbGrid                    \* log(1): numerator ProbGrid

\* _logsumexp(a, b) = log(exp(a) + exp(b)): on numerators, the sum.
\* (all arguments NEG_INF gives NEG_INF: 0 + 0 = 0.)
_logsumexp(a, b) == a + b

\* ------------------------------------------------------ the network's output
\* Distributions over Vocab as tuples indexed by token id + 1.
DistClass == [v \in Vocab |-> IF v = 0 THEN ProbGrid - 1 ELSE IF v = eos_index THEN 1 ELSE 0]
DistEos == [v \in Vocab |-> IF v = eos_index THEN ProbGrid - 1 ELSE IF v = 0 THEN 1 ELSE 0]
DistNoEos == [v \in Vocab |-> IF v = 0 THEN ProbGrid - 1 ELSE IF v = sos_index THEN 1 ELSE 0]
Dists == {DistClass, DistEos, DistNoEos}

\* What the layers compute for one utterance: the distribution after <SOS>
\* and the distribution after any other token.
Utterances == [first : Dists, rest : Dists]

\* log_softmax(fc(decoder_outputs + context_vector)) for utterance x after token y
log_softmax(x, y) == IF y = sos_index THEN x.first ELSE x.rest

\* torch.max(log_probs, dim=1)[1]: the index of the largest entry.
ArgMax(log_probs) ==
    CHOOSE v \in Vocab :
        /\ \A w \in Vocab : log_probs[w] <= log_probs[v]
        /\ \A w \in Vocab : log_probs[w] = log_probs[v] => v <= w

\* ------------------------------------------------------------------- state
VARIABLES
    inputs,               \* the batch: one Utterances element per utterance
    beam_width,           \* decode_infer argument
    max_decode_length,    \* decode_infer argument
    pc,                   \* position in decode_infer
    t,                    \* iterations of the decoding loop executed so far
    i_batch,              \* beam search: utterance the inner loop is at (1-based)
    y,                    \* greedy: previous token of every utterance
    argmaxs,              \* greedy: list of the per-step token vectors
    beam,                 \* beam search: beam[i] is the list of live hypotheses
    new_beam,             \* beam search: candidate lists of the time step
    complete,             \* beam search: lists of complete hypotheses
    attention_weights_step_list,
                          \* beam search: previous attention weights per utterance
    expanded,             \* history: time steps in which utterance i was expanded
    attention_fed,        \* history: per hypothesis expanded by the last step, the weights fed
    ret,                  \* the returned token sequences (first returned value)
    subsample_list,       \* constructor argument: one boolean per encoder layer
    ctc_loss_weight,      \* constructor argument, in tenths: 0 .. 10
    inputs_seq_len,       \* forward: the (permuted) input lengths, one per utterance
    ctc_inputs_seq_len,   \* forward: the lengths handed to ctc_loss_fn, None before
    fpc,                  \* position in forward
    encoder_type,         \* constructor argument
    decoder_type,         \* constructor argument
    init_dec_state_with_enc_state,
                          \* constructor argument
    decoder_num_layers,   \* constructor argument
    encoder_final_state,  \* _init_decoder_state: its argument (NoTensor: None)
    decoder_state,        \* _init_decoder_state: the returned state (NoTensor before)
    input_size,           \* constructor argument
    splice,               \* constructor argument
    num_classes_given,    \* constructor argument num_classes
    model,                \* the attributes __init__ has set on self so far
    error,                \* the exception that ended __init__ or the call, None if none
    mpc,                  \* life of the model object: "new", "constructed", ...
    script,               \* the training script that runs: "train.py" or "train_hierarchical.py"
    ngpus,                \* args.ngpus
    print_step,           \* args.print_step (train.py divides it in place)
    print_step_given,     \* history: print_step as configured
    mtl_per_batch,        \* args.mtl_per_batch
    decay_type,           \* args.decay_type
    metric,               \* args.metric
    eval_start_epoch,     \* args.eval_start_epoch
    not_improved_patient_epoch,
                          \* args.not_improved_patient_epoch
    nepochs,              \* args.nepochs (train_hierarchical.py: the dataset's max_epoch)
    batches_per_epoch,    \* the training set: batches until is_new_epoch
    tpc,                  \* position in main: "main", "loop", "early_stopped", "finished", "raised"
    terror,               \* the exception that ended main, None if none
    epoch,                \* epoch (train_hierarchical.py: train_data.epoch)
    step,                 \* step
    pos,                  \* the training set: batches of the current epoch already fetched
    metric_dev_best,      \* metric_dev_best (train_hierarchical.py: ler_dev_best)
    not_improved_epoch,   \* not_improved_epoch
    events,               \* history: the calls of the last loop iteration, in order
    batches_since_dev,    \* history: training batches since the last dev-loss computation
    warmup_lr_called,     \* history: lr_controller.warmup_lr was called in this run
    decay_lr_called,      \* history: lr_controller.decay_lr was called in this run
    evals,                \* history: the dev metrics of the evaluated epochs, in order
    saved_best,           \* history: best metric stored with the last checkpoint
    convert_to_sgd_epoch, \* args.convert_to_sgd_epoch
    learning_rate,        \* the learning_rate variable of main
    optimizer_lr,         \* the learning rate of the optimizer in use
    model_training,       \* train_hierarchical.py: model.training
    best_model,           \* train_hierarchical.py: "model" (the same object) or "copy"
    copy_training,        \* train_hierarchical.py: .training of the deep copy
    observed_modes,       \* history: the calls of the model made so far, with its mode
    tested,               \* train_hierarchical.py: the final test evaluation has run
    training,             \* nn.Module.training: the mode earlier calls left the model in
    embedding_dropout,    \* constructor argument, in tenths: the probability of nn.Dropout
    run,                  \* decode_infer: 1 in the first call, 2 in the repeated call
    first,                \* history: how the first call ended and what it returned
    labels,               \* forward: the label batch, [B, T_out], padded with <SOS>
    ys,                   \* _decode_train: the decoder inputs labels[:, :-1]
    tf_t,                 \* _decode_train: the loop variable t
    fed,                  \* history: per executed step, the y handed to _decode_step
    logits,               \* _decode_train: the list of logits_step, one per step
    scored,               \* history: the (logits row, target) pairs of the XE loss
    tfpc                  \* position of the training pass

decVars == <<inputs, beam_width, max_decode_length, pc, t, i_batch, y, argmaxs,
             beam, new_beam, complete, attention_weights_step_list, expanded,
             attention_fed, ret>>

fwdVars == <<subsample_list, ctc_loss_weight, inputs_seq_len, ctc_inputs_seq_len, fpc>>

ctorVars == <<encoder_type, decoder_type, init_dec_state_with_enc_state,
              decoder_num_layers, encoder_final_state, decoder_state,
              input_size, splice, num_classes_given, model, error, mpc>>

trainVars == <<script, ngpus, print_step, print_step_given, mtl_per_batch, decay_type,
               metric, eval_start_epoch, not_improved_patient_epoch, nepochs,
               batches_per_epoch, tpc, terror, epoch, step, pos, metric_dev_best,
               not_improved_epoch, events, batches_since_dev, warmup_lr_called,
               decay_lr_called, evals, saved_best, convert_to_sgd_epoch, learning_rate,
               optimizer_lr, model_training, best_model, copy_training, observed_modes,
               tested>>

\* everything but the variables of decode_infer / of forward / of the
\* constructor / of the training scripts
modeVars == <<training, embedding_dropout, run, first>>

tfVars == <<labels, ys, tf_t, fed, logits, scored, tfpc>>

nonDecVars == <<fwdVars, ctorVars, trainVars, modeVars, tfVars>>
nonFwdVars == <<decVars, ctorVars, trainVars, modeVars, tfVars>>
nonCtorVars == <<decVars, fwdVars, trainVars, modeVars, tfVars>>
nonTrainVars == <<decVars, fwdVars, ctorVars, modeVars, tfVars>>

nonTfVars == <<decVars, fwdVars, ctorVars, trainVars, modeVars>>

vars == <<decVars, fwdVars, ctorVars, trainVars, modeVars, tfVars>>

batch_size == Len(inputs)
Batch == 1 .. batch_size

\* `[[]] * batch_size`: batch_size slots that all refer to ONE list object.
\* ref[i] is the object slot i refers to (0: the shared object, i: a list
\* bound to slot i alone by a later assignment), obj[k] the object's content.
SharedLists == [ref |-> [i \in Batch |-> 0], obj |-> [k \in 0 .. batch_size |-> <<>>]]
Deref(lists, i) == lists.obj[lists.ref[i]]
\* lists[i].append(...) / extension in place: every slot referring to the object sees it
AppendInPlace(lists, i, s) == [lists EXCEPT !.obj[lists.ref[i]] = @ \o s]
\* lists[i] = s: slot i is bound to a new object
Rebind(lists, i, s) == [lists EXCEPT !.ref[i] = i, !.obj[i] = s]

NewBeam(i) == Deref(new_beam, i)
Complete(i) == Deref(complete, i)

Last(s) == s[Len(s)]
Min(a, b) == IF a <= b THEN a ELSE b
Prefix(s, n) == SubSeq(s, 1, Min(n, Len(s)))          \* s[:n], n >= 0

\* range(_max_decode_length): next iteration or loop exit
LoopOrExit(tt, loop, exit) == IF tt < max_decode_length THEN loop ELSE exit

None == "None"
\* `attention_weights_step_list = [None] * batch_size`: no weights yet
NoAttention == [utt |-> 0, hyp |-> <<>>]

\* None where a tensor is expected (a tensor has at least one utterance)
NoTensor == <<>>

\* self before __init__ has assigned an attribute
NoAttributes == [stage |-> "none"]

SameMarker(n) == n                         \* faulty variant: <EOS> shares the id of <SOS>

\* `self.eos_index = num_classes + 1`
EosIndex(n) == n + 1

\* self after lines 136-173 of __init__ ("NOTE: Add <SOS> and <EOS>")
Attributes(n) ==
    [stage |-> "attributes", num_classes |-> n + 2, sos_index |-> n, eos_index |-> EosIndex(n)]

\* self after lines 250-259: nn.Embedding(self.num_classes, embedding_dim) and
\* nn.Linear(..., self.num_classes), each represented by its number of classes
WithLayers(m) ==
    [stage |-> "layers", num_classes |-> m.num_classes, sos_index |-> m.sos_index,
     eos_index |-> m.eos_index, embedding |-> m.num_classes, fc |-> m.num_classes]

\* no model construction in progress: a constructed model whose decoder
\* state has been initialised
CtorIdle ==
    /\ encoder_type = "lstm"
    /\ decoder_type = "lstm"
    /\ init_dec_state_with_enc_state = FALSE
    /\ decoder_num_layers = 1
    /\ encoder_final_state = NoTensor
    /\ decoder_state = NoTensor
    /\ input_size = 3
    /\ splice = 1
    /\ num_classes_given = num_classes
    /\ model = WithLayers(Attributes(num_classes))
    /\ error = None
    /\ mpc = "idle"

\* no forward call in progress
FwdIdle ==
    /\ subsample_list = <<>>
    /\ ctc_loss_weight = 0
    /\ inputs_seq_len = <<>>
    /\ ctc_inputs_seq_len = None
    /\ fpc = "idle"

\* no training script running
TrainIdle ==
    /\ script = "none"
    /\ ngpus = 1
    /\ print_step = 1
    /\ print_step_given = 1
    /\ mtl_per_batch = FALSE
    /\ decay_type = "per_epoch"
    /\ metric = "edit_distance"
    /\ eval_start_epoch = 1
    /\ not_improved_patient_epoch = 1
    /\ nepochs = 1
    /\ batches_per_epoch = 1
    /\ tpc = "idle"
    /\ terror = None
    /\ epoch = 0
    /\ step = 0
    /\ pos = 0
    /\ metric_dev_best = 0
    /\ not_improved_epoch = 0
    /\ events = <<>>
    /\ batches_since_dev = 0
    /\ warmup_lr_called = FALSE
    /\ decay_lr_called = FALSE
    /\ evals = <<>>
    /\ saved_best = 0
    /\ convert_to_sgd_epoch = 0
    /\ learning_rate = 0
    /\ optimizer_lr = 0
    /\ model_training = TRUE
    /\ best_model = "model"
    /\ copy_training = TRUE
    /\ observed_modes = {}
    /\ tested = FALSE

\* no teacher-forced training pass in progress
TfIdle ==
    /\ labels = <<>>
    /\ ys = <<>>
    /\ tf_t = 0
    /\ fed = <<>>
    /\ logits = <<>>
    /\ scored = {}
    /\ tfpc = "idle"

\* a model in evaluation mode (model.eval(), as the training scripts leave
\* it before they decode), called once
NoRun == [pc |-> "none", ret |-> <<>>]
EvalMode ==
    /\ training = FALSE
    /\ embedding_dropout = 0
    /\ run = 1
    /\ first = NoRun

Init ==
    /\ FwdIdle
    /\ CtorIdle
    /\ TrainIdle
    /\ TfIdle
    /\ EvalMode
    /\ inputs \in UNION {[1 .. n -> Utterances] : n \in 1 .. MaxBatch}
    /\ beam_width \in 1 .. MaxBeam
    /\ max_decode_length \in 0 .. MaxLen
    /\ pc = "call"
    /\ t = 0
    /\ i_batch = 1
    /\ y = <<>>
    /\ argmaxs = <<>>
    /\ beam = <<>>
    /\ new_beam = <<>>
    /\ complete = <<>>
    /\ attention_weights_step_list = <<>>
    /\ expanded = <<>>
    /\ attention_fed = <<>>
    /\ ret = <<>>

\* ------------------------------------------------------------ decode_infer
UseGreedyNever(bw) == FALSE            \* faulty variant: the dispatch always takes the beam branch

\* decode_infer's dispatch: `if beam_width == 1`
UseGreedy(bw) == bw = 1

InitBeamEmpty(i) == <<>>               \* faulty variant: the beam is not seeded with <SOS>

\* beam.append([((self.sos_index,), LOG_1, h_n)]) with h_n the slice of
\* utterance i of the initial decoder state.  A decoder state is represented
\* by the utterance whose initial state it descends from and the tokens fed.
InitBeam(i) == << [hyp |-> <<sos_index>>, score |-> LOG_1,
                   state |-> [utt |-> i, fed |-> <<>>]] >>

\* decode_infer up to the head of the decoding loop of the chosen decoder
DecodeInfer ==
    /\ UNCHANGED nonDecVars
    /\ pc = "call"
    /\ t' = 0
    /\ i_batch' = 1
    /\ IF UseGreedy(beam_width)
       THEN /\ pc' = LoopOrExit(0, "greedy_loop", "greedy_cat")
            /\ y' = [b \in Batch |-> sos_index]
            /\ UNCHANGED <<beam, new_beam, complete, attention_weights_step_list, expanded>>
            /\ attention_fed' = <<>>
       ELSE /\ pc' = LoopOrExit(0, "beam_loop", "beam_best")
            /\ beam' = [i \in Batch |-> InitBeam(i)]
            /\ complete' = SharedLists
            /\ new_beam' = SharedLists
            /\ attention_weights_step_list' = [i \in Batch |-> NoAttention]
            /\ expanded' = [i \in Batch |-> 0]
            /\ attention_fed' = <<>>
            /\ y' = y
    /\ UNCHANGED <<inputs, beam_width, max_decode_length, argmaxs, ret>>

\* ------------------------------------------------------ _decode_infer_greedy
AnyEos(ny) == \E b \in DOMAIN ny : ny[b] = eos_index     \* faulty variant: stop at the first <EOS>

\* `torch.sum(y.data == self.eos_index) == y.numel()`
AllEos(ny) == \A b \in DOMAIN ny : ny[b] = eos_index

\* nn.Dropout is the identity in evaluation mode and with probability 0
DropoutActive == training /\ embedding_dropout > 0

\* the random masks self.embedding_dropout can draw for the batch: TRUE where
\* the embedding of the utterance's previous token is zeroed
DropoutMasks == IF DropoutActive THEN [Batch -> BOOLEAN] ELSE {[b \in Batch |-> FALSE]}

\* What the decoder is fed for token tok: its embedding, or the zero vector,
\* which is the embedding of no token (an id outside the vocabulary).
Zeroed == num_classes + 2
Embed(tok, dropped) == IF dropped THEN Zeroed ELSE tok

\* one iteration of `for _ in range(_max_decode_length)`
GreedyStep ==
    /\ UNCHANGED nonDecVars
    /\ pc = "greedy_loop"
    /\ \E mask \in DropoutMasks :
       LET ny == [b \in Batch |-> ArgMax(log_softmax(inputs[b], Embed(y[b], mask[b])))]
       IN /\ y' = ny
          /\ argmaxs' = Append(argmaxs, ny)
          /\ t' = t + 1
          /\ pc' = IF AllEos(ny)
                   THEN "greedy_cat"                       \* break
                   ELSE LoopOrExit(t + 1, "greedy_loop", "greedy_cat")
    /\ UNCHANGED <<inputs, beam_width, max_decode_length, i_batch, beam, new_beam,
                   complete, attention_weights_step_list, expanded, attention_fed, ret>>

\* torch.cat(argmaxs, dim=1): raises on an empty list
GreedyCat ==
    /\ UNCHANGED nonDecVars
    /\ pc = "greedy_cat"
    /\ IF argmaxs = <<>>
       THEN /\ pc' = "raised"
            /\ ret' = ret
       ELSE /\ pc' = "done"
            /\ ret' = [b \in Batch |-> [s \in 1 .. Len(argmaxs) |-> argmaxs[s][b]]]
    /\ UNCHANGED <<inputs, beam_width, max_decode_length, t, i_batch, y, argmaxs, beam,
                   new_beam, complete, attention_weights_step_list, expanded, attention_fed>>

\* -------------------------------------------------------- _decode_infer_beam
\* `cand[0][-1] == self.eos_index` and its negation (the filter's lambda)
IsComplete(cand) == Last(cand.hyp) = eos_index
IsLive(cand) == Last(cand.hyp) # eos_index

\* The token embedded for a hypothesis: ys[i_batch] (<SOS>) at t == 0, hyp[-1] after
PrevToken(tt, hyp) == IF tt = 0 THEN sos_index ELSE Last(hyp)

\* The body of `for hyp, score, decoder_state in beam[i_batch]` for one entry:
\* one _decode_step against encoder_outputs[i], then one candidate per class
\* in class order, all carrying the decoder state after the step.
Expand(i, tt, cand) ==
    LET tok == PrevToken(tt, cand.hyp)
        log_probs == log_softmax(inputs[i], tok)
        dec_state == [utt |-> cand.state.utt, fed |-> Append(cand.state.fed, tok)]
    IN [k \in 1 .. Cardinality(Vocab) |->
            [hyp |-> Append(cand.hyp, k - 1),
             score |-> _logsumexp(cand.score, log_probs[k - 1]),
             state |-> dec_state]]

RECURSIVE ExpandAll(_, _, _)
ExpandAll(i, tt, bm) ==
    IF bm = <<>> THEN <<>>
    ELSE Expand(i, tt, Head(bm)) \o ExpandAll(i, tt, Tail(bm))

\* faulty variant: a descending sort that puts the later of two equal scores first
RECURSIVE SortDescTiesReversed(_)
SortDescTiesReversed(s) ==
    IF s = <<>> THEN <<>>
    ELSE LET r == SortDescTiesReversed(SubSeq(s, 1, Len(s) - 1))
             c == s[Len(s)]
             k == Cardinality({j \in 1 .. Len(r) : r[j].score > c.score})
         IN SubSeq(r, 1, k) \o <<c>> \o SubSeq(r, k + 1, Len(r))

\* sorted(s, key=lambda x: x[1], reverse=True): descending by score; Python's
\* sort is stable also with reverse=True, so equal scores keep their order.
RECURSIVE SortDesc(_)
SortDesc(s) ==
    IF s = <<>> THEN <<>>
    ELSE LET r == SortDesc(SubSeq(s, 1, Len(s) - 1))
             c == s[Len(s)]
             k == Cardinality({j \in 1 .. Len(r) : r[j].score >= c.score})
         IN SubSeq(r, 1, k) \o <<c>> \o SubSeq(r, k + 1, Len(r))

\* the eos-terminated candidates among new_beam[i_batch][:beam_width]
CompletedTop(sorted, bw) == SelectSeq(Prefix(sorted, bw), IsComplete)

\* faulty variant: truncate to beam_width before the <EOS> filter
NextBeamTruncFirst(sorted, bw) == SelectSeq(Prefix(sorted, bw), IsLive)

\* list(filter(lambda x: x[0][-1] != eos, new_beam[i_batch]))[:beam_width]
NextBeam(sorted, bw) == Prefix(SelectSeq(sorted, IsLive), bw)

\* `if len(complete[i_batch]) >= beam_width`
CapReached(n, bw) == n >= bw

\* attention weights are represented by the _decode_step call that produced
\* them: the utterance attended to and the hypothesis that was extended.
AttentionOf(i, cand) == [utt |-> i, hyp |-> cand.hyp]

\* The weights handed to _decode_step for each entry of beam[i_batch], in
\* beam order: the slot attention_weights_step_list[i_batch] holds prev at
\* the head of the loop and is overwritten after every _decode_step.
RECURSIVE FedAttention(_, _, _)
FedAttention(i, bm, prev) ==
    IF bm = <<>> THEN <<>>
    ELSE <<[hyp |-> Head(bm).hyp, fed |-> prev]>>
             \o FedAttention(i, Tail(bm), AttentionOf(i, Head(bm)))

\* One iteration of `for i_batch in range(batch_size)` at time step t (at
\* i_batch = 1 preceded by `new_beam = [[]] * batch_size`).
BeamUtt ==
    /\ UNCHANGED nonDecVars
    /\ pc = "beam_loop"
    /\ LET i == i_batch
           nb0 == IF i = 1 THEN SharedLists ELSE new_beam
           nb1 == AppendInPlace(nb0, i, ExpandAll(i, t, beam[i]))
           sorted == SortDesc(Deref(nb1, i))
           cp1 == AppendInPlace(complete, i, CompletedTop(sorted, beam_width))
       IN /\ new_beam' = Rebind(nb1, i, sorted)
          /\ attention_weights_step_list' =
                 IF beam[i] = <<>> THEN attention_weights_step_list
                 ELSE [attention_weights_step_list EXCEPT ![i] = AttentionOf(i, Last(beam[i]))]
          /\ expanded' = IF beam[i] = <<>> THEN expanded ELSE [expanded EXCEPT ![i] = @ + 1]
          /\ attention_fed' = FedAttention(i, beam[i], attention_weights_step_list[i])
          /\ IF CapReached(Len(Deref(cp1, i)), beam_width)
             THEN \* complete[i_batch] = complete[i_batch][:beam_width]; break
                  /\ complete' = Rebind(cp1, i, Prefix(Deref(cp1, i), beam_width))
                  /\ beam' = beam
                  /\ t' = t + 1
                  /\ i_batch' = 1
                  /\ pc' = LoopOrExit(t + 1, "beam_loop", "beam_best")
             ELSE /\ complete' = cp1
                  /\ beam' = [beam EXCEPT ![i] = NextBeam(sorted, beam_width)]
                  /\ IF i = batch_size
                     THEN /\ t' = t + 1
                          /\ i_batch' = 1
                          /\ pc' = LoopOrExit(t + 1, "beam_loop", "beam_best")
                     ELSE /\ t' = t
                          /\ i_batch' = i + 1
                          /\ pc' = pc
    /\ UNCHANGED <<inputs, beam_width, max_decode_length, y, argmaxs, ret>>

\* The final loop: complete[i] = sorted(complete[i]); if it is empty,
\* complete[i] = beam[i]; best.append(complete[i][0][0][1:]).
FinalList(i) ==
    IF Complete(i) = <<>> THEN beam[i] ELSE SortDesc(Complete(i))

BeamBest ==
    /\ UNCHANGED nonDecVars
    /\ pc = "beam_best"
    /\ complete' = [ref |-> [i \in Batch |-> i],
                    obj |-> [k \in 0 .. batch_size |->
                                IF k = 0 THEN complete.obj[0] ELSE FinalList(k)]]
    /\ IF \E i \in Batch : FinalList(i) = <<>>
       THEN /\ pc' = "raised"                    \* complete[i_batch][0]: IndexError
            /\ ret' = ret
       ELSE /\ pc' = "done"
            /\ ret' = [i \in Batch |-> Tail(FinalList(i)[1].hyp)]
    /\ UNCHANGED <<inputs, beam_width, max_decode_length, t, i_batch, y, argmaxs, beam,
                   new_beam, attention_weights_step_list, expanded, attention_fed>>

Next == DecodeInfer \/ GreedyStep \/ GreedyCat \/ BeamUtt \/ BeamBest

Spec == Init /\ [][Next]_vars

\* The greedy decoder run to the end of its loop, as a function of the batch:
\* the list of token vectors after n iterations from previous tokens yv.
RECURSIVE GreedyFrom(_, _, _)
GreedyFrom(yv, acc, n) ==
    IF n >= max_decode_length THEN acc
    ELSE LET ny == [b \in Batch |-> ArgMax(log_softmax(inputs[b], yv[b]))]
         IN IF AllEos(ny) THEN Append(acc, ny)
            ELSE GreedyFrom(ny, Append(acc, ny), n + 1)

\* ------------------------------------- decode_infer called twice (greedy)
\* The same model (same parameters, same mode) decodes the same batch again.
InitTwice ==
    /\ FwdIdle
    /\ CtorIdle
    /\ TrainIdle
    /\ TfIdle
    /\ inputs \in UNION {[1 .. n -> Utterances] : n \in 1 .. MaxBatch}
    /\ beam_width = 1
    /\ max_decode_length \in 0 .. MaxLen
    /\ pc = "call"
    /\ t = 0
    /\ i_batch = 1
    /\ y = <<>>
    /\ argmaxs = <<>>
    /\ beam = <<>>
    /\ new_beam = <<>>
    /\ complete = <<>>
    /\ attention_weights_step_list = <<>>
    /\ expanded = <<>>
    /\ attention_fed = <<>>
    /\ ret = <<>>
    /\ training \in BOOLEAN
    /\ embedding_dropout \in {0, 5}
    /\ run = 1
    /\ first = NoRun

\* the first call has ended: the caller keeps its result and calls again
CallAgain ==
    /\ run = 1
    /\ pc \in {"done", "raised"}
    /\ run' = 2
    /\ first' = [pc |-> pc, ret |-> ret]
    /\ pc' = "call"
    /\ t' = 0
    /\ i_batch' = 1
    /\ y' = <<>>
    /\ argmaxs' = <<>>
    /\ ret' = <<>>
    /\ UNCHANGED <<inputs, beam_width, max_decode_length, beam, new_beam, complete,
                   attention_weights_step_list, expanded, attention_fed, training,
                   embedding_dropout>>
    /\ UNCHANGED <<fwdVars, ctorVars, trainVars, tfVars>>

NextTwice == DecodeInfer \/ GreedyStep \/ GreedyCat \/ CallAgain

SpecTwice == InitTwice /\ [][NextTwice]_vars

\* ------------------------------------------- forward: auxiliary CTC branch
MaxLayers == 3       \* encoder layers: 0..MaxLayers
MaxFrames == 8       \* input length of an utterance: 1..MaxFrames

\* sum(self.subsample_list): the number of True entries
RECURSIVE sum(_)
sum(l) == IF l = <<>> THEN 0 ELSE (IF Head(l) THEN 1 ELSE 0) + sum(Tail(l))

\* the divisor of `inputs_seq_len /= sum(self.subsample_list) * 2`
SubsampleDivisor(l) == sum(l) * 2

\* no decode_infer call in progress
DecIdle ==
    /\ inputs = <<>>
    /\ beam_width = 1
    /\ max_decode_length = 0
    /\ pc = "idle"
    /\ t = 0
    /\ i_batch = 1
    /\ y = <<>>
    /\ argmaxs = <<>>
    /\ beam = <<>>
    /\ new_beam = <<>>
    /\ complete = <<>>
    /\ attention_weights_step_list = <<>>
    /\ expanded = <<>>
    /\ attention_fed = <<>>
    /\ ret = <<>>

InitCTC ==
    /\ DecIdle
    /\ EvalMode
    /\ CtorIdle
    /\ TrainIdle
    /\ TfIdle
    /\ subsample_list \in UNION {[1 .. n -> BOOLEAN] : n \in 0 .. MaxLayers}
    /\ ctc_loss_weight \in {0, 5, 10}
    /\ inputs_seq_len \in UNION {[1 .. n -> 1 .. MaxFrames] : n \in 1 .. MaxBatch}
    /\ ctc_inputs_seq_len = None
    /\ fpc = "call"

\* forward, lines 316-349: with ctc_loss_weight > 0 the input lengths are
\* divided in place (IntTensor: integer division) and handed to ctc_loss_fn.
\* A divisor of 0 ends the call abnormally (integer division by zero).
Forward ==
    /\ fpc = "call"
    /\ IF ctc_loss_weight > 0
       THEN IF SubsampleDivisor(subsample_list) = 0
            THEN /\ fpc' = "raised"
                 /\ ctc_inputs_seq_len' = ctc_inputs_seq_len
            ELSE /\ fpc' = "done"
                 /\ ctc_inputs_seq_len' =
                        [b \in DOMAIN inputs_seq_len |->
                            inputs_seq_len[b] \div SubsampleDivisor(subsample_list)]
       ELSE /\ fpc' = "done"
            /\ ctc_inputs_seq_len' = ctc_inputs_seq_len
    /\ UNCHANGED <<subsample_list, ctc_loss_weight, inputs_seq_len>>
    /\ UNCHANGED nonFwdVars

NextCTC == Forward

SpecCTC == InitCTC /\ [][NextCTC]_vars

\* ------------------------------------- __init__ and _init_decoder_state
MaxDecLayers == 2    \* decoder_num_layers: 1..MaxDecLayers
MaxStateVal == 2     \* entries of the encoder's final state: 1..MaxStateVal
MaxInputSize == 6    \* input_size: 1..MaxInputSize
MaxSplice == 3       \* splice: 1..MaxSplice
MaxClasses == 2      \* num_classes: 1..MaxClasses

\* `if encoder_type in ['lstm', 'gru', 'rnn']`
SupportedEncoderTypes == {"lstm", "gru", "rnn"}
\* "cnn" stands for every other string
EncoderTypes == SupportedEncoderTypes \cup {"cnn"}
DecoderTypes == {"lstm", "gru"}

\* A state tensor `[layers, B, units]` is a sequence (layers) of sequences
\* (utterances) of one number standing for the vector of units; an encoder
\* final state `[1, B, units]` is its only layer.
EncoderFinalStates == UNION {[1 .. n -> 1 .. MaxStateVal] : n \in 1 .. MaxBatch}

\* torch.zeros(self.decoder_num_layers, batch_size, self.decoder_num_units)
zeros(layers, bsz) == [l \in 1 .. layers |-> [b \in 1 .. bsz |-> 0]]

InitCtor ==
    /\ DecIdle
    /\ EvalMode
    /\ FwdIdle
    /\ TrainIdle
    /\ TfIdle
    /\ encoder_type \in EncoderTypes
    /\ decoder_type \in DecoderTypes
    /\ init_dec_state_with_enc_state \in BOOLEAN
    /\ decoder_num_layers \in 1 .. MaxDecLayers
    /\ encoder_final_state = NoTensor
    /\ decoder_state = NoTensor
    /\ input_size \in 1 .. MaxInputSize
    /\ splice \in 1 .. MaxSplice
    /\ num_classes_given \in 1 .. MaxClasses
    /\ model = NoAttributes
    /\ error = None
    /\ mpc = "new"

SpliceUnchecked(sp) == TRUE                \* faulty variant: the splice window is not checked

\* `assert splice % 2 == 1, 'splice must be the odd number'`
SpliceOdd(sp) == sp % 2 = 1

\* `assert input_size % 3 == 0, 'input_size must be divisible by 3 ...'`
DivisibleBy3(size) == size % 3 = 0

\* __init__: the two assertions, the attributes, the encoder-type test of
\* lines 185-214, then the decoder, the attention and the output layers
Construct ==
    /\ mpc = "new"
    /\ IF ~DivisibleBy3(input_size)
       THEN /\ mpc' = "ctor_raised"
            /\ error' = "AssertionError: input_size must be divisible by 3"
            /\ model' = model
       ELSE IF ~SpliceOdd(splice)
       THEN /\ mpc' = "ctor_raised"
            /\ error' = "AssertionError: splice must be the odd number"
            /\ model' = model
       ELSE IF encoder_type \in SupportedEncoderTypes
       THEN /\ mpc' = "constructed"
            /\ error' = error
            /\ model' = WithLayers(Attributes(num_classes_given))
       ELSE /\ mpc' = "ctor_raised"
            /\ error' = "NotImplementedError"
            /\ model' = Attributes(num_classes_given)
    /\ UNCHANGED <<encoder_type, decoder_type, init_dec_state_with_enc_state,
                   decoder_num_layers, encoder_final_state, decoder_state,
                   input_size, splice, num_classes_given>>
    /\ UNCHANGED nonCtorVars

\* `self.init_dec_state_with_enc_state and self.encoder_type == self.decoder_type`
CopiesEncoderState == init_dec_state_with_enc_state /\ encoder_type = decoder_type

\* the value _init_decoder_state returns for a final state efs that is not None
DecoderState(efs) ==
    LET z == zeros(decoder_num_layers, Len(efs))
        h_0 == IF CopiesEncoderState THEN [z EXCEPT ![1] = efs] ELSE z
    IN IF decoder_type = "lstm"
       THEN [h |-> h_0, c |-> z]
       ELSE [h |-> h_0, c |-> NoTensor]

\* _init_decoder_state(encoder_final_state), called by _decode_train (inside
\* forward) and by both decoders (inside decode_infer) on a constructed model
InitDecoderState ==
    /\ mpc = "constructed"
    /\ \E efs \in EncoderFinalStates \cup {NoTensor} :
           /\ encoder_final_state' = efs
           /\ IF init_dec_state_with_enc_state /\ efs = NoTensor
              THEN /\ mpc' = "call_raised"
                   /\ error' = "ValueError"
                   /\ decoder_state' = decoder_state
              ELSE IF efs = NoTensor
              THEN \* encoder_final_state.size() on None
                   /\ mpc' = "call_raised"
                   /\ error' = "AttributeError"
                   /\ decoder_state' = decoder_state
              ELSE /\ mpc' = "state_done"
                   /\ error' = error
                   /\ decoder_state' = DecoderState(efs)
    /\ UNCHANGED <<encoder_type, decoder_type, init_dec_state_with_enc_state,
                   decoder_num_layers, input_size, splice, num_classes_given, model>>
    /\ UNCHANGED nonCtorVars

NextCtor == Construct \/ InitDecoderState

SpecCtor == InitCtor /\ [][NextCtor]_vars

\* ------------------------------------ train.py and train_hierarchical.py
MaxGpus == 2             \* args.ngpus: 1..MaxGpus
MaxPrintStep == 4        \* args.print_step: 1..MaxPrintStep
MaxEpochs == 3           \* args.nepochs: 1..MaxEpochs
MaxEvalStart == 2        \* args.eval_start_epoch: 1..MaxEvalStart
MaxPatience == 2         \* args.not_improved_patient_epoch: 0..MaxPatience
MaxBatchesPerEpoch == 2  \* batches of one epoch of the training set: 1..MaxBatchesPerEpoch
MaxMetric == 2           \* a dev metric is one of 0..MaxMetric
MaxRate == 3             \* learning rates are 1..MaxRate; args.learning_rate is MaxRate

Scripts == {"train.py", "train_hierarchical.py"}
\* --decay_type choices
DecayTypes == {"per_epoch", "compare_metric", "warmup"}
\* --metric choices; "acc" stands for acc, ppl and bleu
Metrics == {"edit_distance", "loss", "acc"}
\* the metrics main has a branch for
ImplementedMetrics == {"edit_distance", "loss"}
MetricValues == 0 .. MaxMetric

\* `metric_dev_best = 10000` (above every dev metric) in train.py,
\* `ler_dev_best = 1` (an error rate of 100%) in train_hierarchical.py
InitialBest(sc) == IF sc = "train.py" THEN MaxMetric + 1 ELSE MaxMetric

\* `step = 1` in train.py, the first index of enumerate in train_hierarchical.py
InitialStep(sc) == IF sc = "train.py" THEN 1 ELSE 0

\* `if args.ngpus > 1: args.print_step //= args.ngpus` (train.py only)
AdjustedPrintStep(sc, ps, n) == IF sc = "train.py" /\ n > 1 THEN ps \div n ELSE ps

\* a convert_to_sgd_epoch after the last epoch: the optimizer is never replaced
NoConversion == MaxEpochs + 1

\* the state at the start of main, with convert_to_sgd_epoch drawn from conv
TrainArgs(conv) ==
    /\ DecIdle
    /\ EvalMode
    /\ FwdIdle
    /\ CtorIdle
    /\ TfIdle
    /\ script \in Scripts
    /\ print_step \in 1 .. MaxPrintStep
    /\ print_step_given = print_step
    /\ eval_start_epoch \in 1 .. MaxEvalStart
    /\ not_improved_patient_epoch \in 0 .. MaxPatience
    /\ batches_per_epoch \in 1 .. MaxBatchesPerEpoch
    /\ IF script = "train.py"
       THEN /\ nepochs \in 0 .. MaxEpochs
            /\ ngpus \in 1 .. MaxGpus
            /\ mtl_per_batch \in BOOLEAN
            /\ decay_type \in DecayTypes
            /\ metric \in Metrics
       ELSE \* train_hierarchical.py has none of these options
            /\ nepochs \in 1 .. MaxEpochs
            /\ ngpus = 1
            /\ mtl_per_batch = FALSE
            /\ decay_type = "per_epoch"
            /\ metric = "edit_distance"
    /\ tpc = "main"
    /\ terror = None
    /\ epoch = 0
    /\ step = 0
    /\ pos = 0
    /\ metric_dev_best = 0
    /\ not_improved_epoch = 0
    /\ events = <<>>
    /\ batches_since_dev = 0
    /\ warmup_lr_called = FALSE
    /\ decay_lr_called = FALSE
    /\ evals = <<>>
    /\ saved_best = 0
    /\ convert_to_sgd_epoch \in conv
    /\ learning_rate = 0
    /\ optimizer_lr = 0
    /\ model_training = TRUE
    /\ best_model = "model"
    /\ copy_training = TRUE
    /\ observed_modes = {}
    /\ tested = FALSE

InitTrain == TrainArgs({NoConversion})

\* main up to the head of the training loop
Main ==
    /\ UNCHANGED nonTrainVars
    /\ tpc = "main"
    /\ tpc' = "loop"
    /\ print_step' = AdjustedPrintStep(script, print_step, ngpus)
    /\ epoch' = IF script = "train.py" THEN 1 ELSE 0
    /\ step' = InitialStep(script)
    /\ metric_dev_best' = InitialBest(script)
    /\ not_improved_epoch' = 0
    /\ saved_best' = InitialBest(script)
    /\ learning_rate' = MaxRate
    /\ optimizer_lr' = MaxRate
    /\ best_model' = "model"
    /\ UNCHANGED <<script, ngpus, print_step_given, mtl_per_batch, decay_type, metric,
                   eval_start_epoch, not_improved_patient_epoch, nepochs,
                   batches_per_epoch, terror, pos, events, batches_since_dev,
                   warmup_lr_called, decay_lr_called, evals, convert_to_sgd_epoch,
                   model_training, copy_training, observed_modes, tested>>

\* The loop variables as one record, threaded through the parts of the body.
Cur ==
    [tpc |-> tpc, terror |-> terror, epoch |-> epoch, step |-> step, pos |-> pos,
     metric_dev_best |-> metric_dev_best, not_improved_epoch |-> not_improved_epoch,
     events |-> <<>>, batches_since_dev |-> batches_since_dev,
     warmup_lr_called |-> warmup_lr_called, decay_lr_called |-> decay_lr_called,
     evals |-> evals, saved_best |-> saved_best, is_new_epoch |-> FALSE,
     learning_rate |-> learning_rate, optimizer_lr |-> optimizer_lr,
     model_training |-> model_training, best_model |-> best_model,
     copy_training |-> copy_training, observed_modes |-> observed_modes]

Raise(s, e) == [s EXCEPT !.tpc = "raised", !.terror = e]
Log(s, ev) == [s EXCEPT !.events = @ \o ev]

TaskPassStepFirst == <<"zero_grad", "optimizer.step", "forward", "backward">>   \* faulty variant: update before the pass

\* zero_grad(); loss = model(...); loss.backward(); optimizer.step()
TaskPass == <<"zero_grad", "forward", "backward", "optimizer.step">>

\* train.py, lines 590-621: the training passes of one batch
\* (`for task in ['ys_sub', 'ys']` with mtl_per_batch)
TrainPasses(mtl) == IF mtl THEN TaskPass \o TaskPass ELSE TaskPass

WarmsUpAlways(dt) == TRUE                    \* faulty variant: warmup_lr whatever the decay type

\* `if args.decay_type == 'warmup'`
WarmsUp(dt) == dt = "warmup"
\* `if args.decay_type != 'warmup'`
Decays(dt) == dt # "warmup"

\* one decay of a learning rate
Lower(lr) == IF lr > 1 THEN lr - 1 ELSE lr

\* the rate lr_controller.decay_lr returns: decayed at every epoch with
\* per_epoch, decayed when the metric did not improve with compare_metric
decay_lr(lr, dt, value, best) ==
    IF dt = "per_epoch" \/ ~(value < best) THEN Lower(lr) ELSE lr

\* the rate lr_controller.warmup_lr returns: it grows with the step up to
\* the initial rate
warmup_lr(lr, st) == Min(st, MaxRate)

\* `optimizer, learning_rate = lr_controller...(optimizer=..., ...)`: the
\* controller sets the optimizer's rate to the rate it returns
SetRate(s, lr) == [s EXCEPT !.learning_rate = lr, !.optimizer_lr = lr]

\* `model.module.set_optimizer('sgd', learning_rate_init=float(args.learning_rate), ...)`:
\* a new optimizer with the initial rate; the variable learning_rate is not assigned
ConvertToSgd(s) == [s EXCEPT !.optimizer_lr = MaxRate]

\* train_set.next(), the training passes and the warmup update
TrainBatch(s) ==
    LET s1 == [s EXCEPT !.is_new_epoch = (s.pos + 1 = batches_per_epoch),
                        !.pos = IF s.pos + 1 = batches_per_epoch THEN 0 ELSE s.pos + 1,
                        !.batches_since_dev = @ + 1]
        s2 == Log(s1, <<"next">> \o TrainPasses(mtl_per_batch))
    IN IF WarmsUp(decay_type)
       THEN Log(SetRate([s2 EXCEPT !.warmup_lr_called = TRUE],
                        warmup_lr(s2.learning_rate, s2.step)),
                <<"warmup_lr">>)
       ELSE s2

\* `if step % args.print_step == 0:` the dev loss of one dev batch; then
\* `step += args.ngpus`
DevLoss(s) ==
    IF print_step = 0 THEN Raise(s, "ZeroDivisionError")
    ELSE LET s1 == IF s.step % print_step = 0
                   THEN Log([s EXCEPT !.batches_since_dev = 0], <<"dev_next", "dev_forward">>)
                   ELSE s
         IN [s1 EXCEPT !.step = @ + ngpus]

ImprovedOrEqual(m, best) == m <= best            \* faulty variant: an equal metric counts as better

\* `if metric_dev < metric_dev_best` (`if metric_epoch < ler_dev_best`)
Improved(m, best) == m < best

NextNotImprovedNoReset(improved, n) == n + 1     \* faulty variant: the counter is never reset

\* `not_improved_epoch = 0` at an improvement, `not_improved_epoch += 1` otherwise
NextNotImproved(improved, n) == IF improved THEN 0 ELSE n + 1

\* `if not_improved_epoch == args.not_improved_patient_epoch: break`
EarlyStopping(n) == n = not_improved_patient_epoch

\* train.py, lines 667-777: `if is_new_epoch:` with dev metric m
EpochEnd(s, m) ==
    IF s.tpc # "loop" \/ ~s.is_new_epoch THEN s
    ELSE IF s.epoch < eval_start_epoch
    THEN LET s1 == Log([s EXCEPT !.saved_best = s.metric_dev_best], <<"save_checkpoint">>)
         IN IF s.epoch = nepochs THEN [s1 EXCEPT !.tpc = "finished"]
            ELSE [s1 EXCEPT !.epoch = @ + 1]
    ELSE IF metric \notin ImplementedMetrics
    THEN Raise(s, "NotImplementedError")
    ELSE LET improved == Improved(m, s.metric_dev_best)
             s1 == Log([s EXCEPT !.evals = Append(@, m)], <<"evaluate">>)
             s2 == IF Decays(decay_type)
                   THEN Log(SetRate([s1 EXCEPT !.decay_lr_called = TRUE],
                                    decay_lr(s1.learning_rate, decay_type, m,
                                             s1.metric_dev_best)),
                            <<"decay_lr">>)
                   ELSE s1
             s3 == [s2 EXCEPT !.not_improved_epoch = NextNotImproved(improved, @),
                              !.metric_dev_best = IF improved THEN m ELSE @]
             s4 == IF improved
                   THEN Log([s3 EXCEPT !.saved_best = s3.metric_dev_best],
                            <<"save_checkpoint", "evaluate_test">>)
                   ELSE s3
             s5 == IF s.epoch = convert_to_sgd_epoch THEN ConvertToSgd(s4) ELSE s4
         IN IF EarlyStopping(s4.not_improved_epoch) THEN [s4 EXCEPT !.tpc = "early_stopped"]
            ELSE IF s.epoch = nepochs THEN [s5 EXCEPT !.tpc = "finished"]
            ELSE [s5 EXCEPT !.epoch = @ + 1]

\* the variables after the body
Becomes(r) ==
    /\ tpc' = r.tpc
    /\ terror' = r.terror
    /\ epoch' = r.epoch
    /\ step' = r.step
    /\ pos' = r.pos
    /\ metric_dev_best' = r.metric_dev_best
    /\ not_improved_epoch' = r.not_improved_epoch
    /\ events' = r.events
    /\ batches_since_dev' = r.batches_since_dev
    /\ warmup_lr_called' = r.warmup_lr_called
    /\ decay_lr_called' = r.decay_lr_called
    /\ evals' = r.evals
    /\ saved_best' = r.saved_best
    /\ learning_rate' = r.learning_rate
    /\ optimizer_lr' = r.optimizer_lr
    /\ model_training' = r.model_training
    /\ best_model' = r.best_model
    /\ copy_training' = r.copy_training
    /\ observed_modes' = r.observed_modes
    /\ UNCHANGED <<script, ngpus, print_step, print_step_given, mtl_per_batch,
                   decay_type, metric, eval_start_epoch, not_improved_patient_epoch,
                   nepochs, batches_per_epoch, convert_to_sgd_epoch, tested>>

\* one iteration of `while True:` in train.py; m is the dev metric the
\* evaluation of the epoch returns
TrainIteration ==
    /\ UNCHANGED nonTrainVars
    /\ script = "train.py"
    /\ tpc = "loop"
    /\ epoch <= MaxEpochs                  \* runs are followed up to epoch MaxEpochs
    /\ \E m \in MetricValues : Becomes(EpochEnd(DevLoss(TrainBatch(Cur)), m))

\* a call of the model (a forward pass or a decoding) in the given mode
Calls(s, call, mode) ==
    [s EXCEPT !.observed_modes = @ \cup {[call |-> call, training |-> mode]}]

\* model.eval() / model.train()
SetMode(s, mode) == [s EXCEPT !.model_training = mode]

\* train_hierarchical.py, lines 171-200: one batch; zero_grad is called
\* before the forward pass and again before backward
HierBatch(s) ==
    Log(Calls([s EXCEPT !.is_new_epoch = (s.pos + 1 = batches_per_epoch),
                        !.pos = IF s.pos + 1 = batches_per_epoch THEN 0 ELSE s.pos + 1,
                        !.epoch = IF s.pos + 1 = batches_per_epoch THEN @ + 1 ELSE @,
                        !.batches_since_dev = @ + 1],
              "forward", s.model_training),
        <<"next", "zero_grad", "forward", "zero_grad", "backward", "optimizer.step">>)

\* `if (step + 1) % params['print_step'] == 0:`
HierDevLoss(s) ==
    IF (s.step + 1) % print_step = 0
    THEN LET s1 == SetMode([s EXCEPT !.batches_since_dev = 0], FALSE)
             s2 == Log(Calls(s1, "dev_forward", s1.model_training),
                       <<"dev_next", "dev_forward">>)
         IN SetMode(s2, TRUE)
    ELSE s

\* train_hierarchical.py, lines 229-291: `if is_new_epoch:` with dev WER m;
\* then the next index of enumerate, or the end of the training set
HierEpochEnd(s, m) ==
    LET s0 == [s EXCEPT !.step = @ + 1]
        last == s.is_new_epoch /\ s.epoch = nepochs
    IN IF ~s.is_new_epoch \/ s.epoch < eval_start_epoch
       THEN [s0 EXCEPT !.tpc = IF last THEN "finished" ELSE @]
       ELSE LET improved == Improved(m, s.metric_dev_best)
                e0 == SetMode(s0, FALSE)
                s1 == Log(Calls([e0 EXCEPT !.evals = Append(@, m)],
                                "evaluate", e0.model_training),
                          <<"evaluate">>)
                s2 == [s1 EXCEPT !.not_improved_epoch = NextNotImproved(improved, @),
                                 !.metric_dev_best = IF improved THEN m ELSE @,
                                 \* best_model = copy.deepcopy(model)
                                 !.best_model = IF improved THEN "copy" ELSE @,
                                 !.copy_training = IF improved THEN s1.model_training ELSE @]
                s3 == IF improved THEN Log(s2, <<"save_checkpoint">>) ELSE s2
            IN IF EarlyStopping(s3.not_improved_epoch)
               THEN [s3 EXCEPT !.tpc = "early_stopped", !.step = s.step]
               ELSE SetMode(Log(SetRate([s3 EXCEPT !.decay_lr_called = TRUE,
                                                   !.tpc = IF last THEN "finished" ELSE @],
                                        decay_lr(s3.learning_rate, "compare_metric", m,
                                                 s.metric_dev_best)),
                                <<"decay_lr">>),
                            TRUE)

\* one iteration of `for step, (data, is_new_epoch) in enumerate(train_data):`
HierIteration ==
    /\ UNCHANGED nonTrainVars
    /\ script = "train_hierarchical.py"
    /\ tpc = "loop"
    /\ \E m \in MetricValues : Becomes(HierEpochEnd(HierDevLoss(HierBatch(Cur)), m))

\* the mode of the model the final evaluation decodes with
BestModelTraining == IF best_model = "copy" THEN copy_training ELSE model_training

\* train_hierarchical.py, lines 303-347: the test evaluation of best_model
\* after the loop (events keeps the calls of the last iteration)
HierTest ==
    /\ UNCHANGED nonTrainVars
    /\ script = "train_hierarchical.py"
    /\ tpc \in {"finished", "early_stopped"}
    /\ ~tested
    /\ tested' = TRUE
    /\ observed_modes' =
           observed_modes \cup {[call |-> "evaluate_test", training |-> BestModelTraining]}
    /\ UNCHANGED <<script, ngpus, print_step, print_step_given, mtl_per_batch, decay_type,
                   metric, eval_start_epoch, not_improved_patient_epoch, nepochs,
                   batches_per_epoch, tpc, terror, epoch, step, pos, metric_dev_best,
                   not_improved_epoch, events, batches_since_dev, warmup_lr_called,
                   decay_lr_called, evals, saved_best, convert_to_sgd_epoch, learning_rate,
                   optimizer_lr, model_training, best_model, copy_training>>

NextTrain == Main \/ TrainIteration \/ HierIteration \/ HierTest

SpecTrain == InitTrain /\ [][NextTrain]_vars

\* main runs to its end: the loop is single-threaded and nothing in it waits
SpecTrainFair == SpecTrain /\ WF_vars(NextTrain)

\* train.py with a conversion to SGD at one of the epochs of the run
InitLR ==
    /\ TrainArgs(1 .. MaxEpochs)
    /\ script = "train.py"

NextLR == Main \/ TrainIteration

SpecLR == InitLR /\ [][NextLR]_vars

\* ---------------------------------- forward / _decode_train (teacher forcing)
MaxLabelLen == 4         \* a label sequence <SOS> c* <EOS> has 2..MaxLabelLen tokens

\* a label sequence of n tokens, padded with sos_index to T_out tokens
\* ("NOTE: labels are padded by sos_index")
LabelRow(n, T_out) ==
    [p \in 1 .. T_out |-> IF p = 1 THEN sos_index
                          ELSE IF p < n THEN 0
                          ELSE IF p = n THEN eos_index
                          ELSE sos_index]

Max(S) == CHOOSE m \in S : \A n \in S : n <= m

\* the label batches of forward: every row is padded to the longest one
LabelBatches ==
    UNION {{[b \in 1 .. B |-> LabelRow(lens[b], Max({lens[c] : c \in 1 .. B}))] :
                lens \in [1 .. B -> 2 .. MaxLabelLen]} : B \in 1 .. MaxBatch}

\* forward is called on a model in training mode, before any decoding
InitTF ==
    /\ DecIdle
    /\ FwdIdle
    /\ CtorIdle
    /\ TrainIdle
    /\ training = TRUE
    /\ embedding_dropout \in {0, 5}
    /\ run = 1
    /\ first = NoRun
    /\ labels \in LabelBatches
    /\ ys = <<>>
    /\ tf_t = 0
    /\ fed = <<>>
    /\ logits = <<>>
    /\ scored = {}
    /\ tfpc = "call"

\* `labels.size(1)`
labels_max_seq_len == Len(labels[1])

\* the utterances of the label batch
LabelBatch == 1 .. Len(labels)

DropFirst(row) == Tail(row)                \* faulty variant: labels[:, 1:] as the decoder input

\* `labels[:, :-1]` of one row
DropLast(row) == SubSeq(row, 1, Len(row) - 1)

\* forward up to the loop of _decode_train: `ys = self.embedding(labels[:, :-1])`,
\* `logits = []`; the embedding of a token is represented by the token
DecodeTrain ==
    /\ tfpc = "call"
    /\ ys' = [b \in LabelBatch |-> DropLast(labels[b])]
    /\ tf_t' = 0
    /\ logits' = <<>>
    /\ tfpc' = "loop"
    /\ UNCHANGED <<labels, fed, scored>>
    /\ UNCHANGED nonTfVars

\* the elements of `ys = self.embedding_dropout(ys)` that belong to step t:
\* TRUE where the embedding of the utterance's token is zeroed
TrainDropoutMasks ==
    IF DropoutActive THEN [LabelBatch -> BOOLEAN] ELSE {[b \in LabelBatch |-> FALSE]}

\* one iteration of `for t in range(labels_max_seq_len - 1)`: y = ys[:, t:t + 1, :]
\* is handed to _decode_step, whose logits are a function of the utterance
\* and of everything the decoder has been fed so far
DecodeTrainStep ==
    /\ tfpc = "loop"
    /\ tf_t < labels_max_seq_len - 1
    /\ \E mask \in TrainDropoutMasks :
        LET y_t == [b \in LabelBatch |-> [tok |-> ys[b][tf_t + 1], dropped |-> mask[b]]]
            logits_step == [b \in LabelBatch |-> [utt |-> b, step |-> tf_t, y |-> y_t[b]]]
        IN  /\ fed' = Append(fed, y_t)
            /\ logits' = Append(logits, logits_step)
    /\ tf_t' = tf_t + 1
    /\ UNCHANGED <<labels, ys, scored, tfpc>>
    /\ UNCHANGED nonTfVars

\* `torch.cat(logits, dim=1)`: [B, 1, V] per step to [B, T_out - 1, V]
Cat1(l) == [b \in LabelBatch |-> [k \in 1 .. Len(l) |-> l[k][b]]]

\* `.view(-1)` / `.view((-1, V))`: the rows of the batch one after the other
RECURSIVE View1d(_)
View1d(m) == IF m = <<>> THEN <<>> ELSE Head(m) \o View1d(Tail(m))

\* `F.cross_entropy(logits, labels_1d, ignore_index=self.sos_index)`: the
\* (row, target) pairs that contribute to the loss
cross_entropy(rows, targets) ==
    {<<rows[k], targets[k]>> : k \in {j \in DOMAIN rows : targets[j] # sos_index}}

\* the end of _decode_train and the XE loss of forward
XELoss ==
    /\ tfpc = "loop"
    /\ ~(tf_t < labels_max_seq_len - 1)
    /\ LET logits_2d == View1d(Cat1(logits))
           labels_1d == View1d([b \in LabelBatch |-> Tail(labels[b])])
       IN  scored' = cross_entropy(logits_2d, labels_1d)
    /\ tfpc' = "done"
    /\ UNCHANGED <<labels, ys, tf_t, fed, logits>>
    /\ UNCHANGED nonTfVars

NextTF == DecodeTrain \/ DecodeTrainStep \/ XELoss

SpecTF == InitTF /\ [][NextTF]_vars

\* ================================================================== claims
Range(s) == {s[k] : k \in DOMAIN s}
BeamCall == ~UseGreedy(beam_width) /\ pc \in {"beam_loop", "beam_best", "done", "raised"}
GreedyCall == UseGreedy(beam_width) /\ pc \in {"greedy_loop", "greedy_cat", "done", "raised"}

\* C1: in beam search every utterance has its own beam state: the candidate
\* list built for utterance i, its live beam and its complete list hold only
\* hypotheses (and decoder states) that descend from utterance i.
C1_IndependentBeams ==
    BeamCall =>
        \A i \in Batch :
            /\ \A c \in Range(beam[i]) : c.state.utt = i
            /\ \A c \in Range(Complete(i)) : c.state.utt = i
            /\ new_beam.ref[i] = i => \A c \in Range(NewBeam(i)) : c.state.utt = i

\* C2: once the complete list of an utterance holds beam_width hypotheses, no
\* later iteration of the decoding loop expands that utterance or changes its
\* complete list.
C2_StopsAtCap ==
    [][pc = "beam_loop" =>
          \A i \in Batch :
              Len(Complete(i)) >= beam_width =>
                  /\ expanded'[i] = expanded[i]
                  /\ Deref(complete', i) = Complete(i)]_vars

\* C3: the sequence returned for an utterance is its best complete hypothesis
\* if it has one, else its best live hypothesis, without the leading <SOS>.
OwnComplete(i) == {c \in Range(Complete(i)) : IsComplete(c) /\ c.state.utt = i}
OwnLive(i) == {c \in Range(beam[i]) : c.state.utt = i}
IsBestOf(c, S) == c \in S /\ \A d \in S : d.score <= c.score
C3_BestOfOwn ==
    (BeamCall /\ pc = "done") =>
        \A i \in Batch :
            /\ ret[i] = Tail(Complete(i)[1].hyp)
            /\ IF OwnComplete(i) # {}
               THEN IsBestOf(Complete(i)[1], OwnComplete(i))
               ELSE IsBestOf(Complete(i)[1], OwnLive(i))

C5_NeverFailsWithoutEos ==
    BeamCall =>
        /\ pc # "raised"
        /\ \A i \in Batch : beam[i] # <<>>
        /\ pc = "done" =>
               \A i \in Batch :
                   (\A c \in Range(Complete(i)) : ~IsComplete(c)) =>
                       /\ ret[i] = Tail(beam[i][1].hyp)
                       /\ \A c \in Range(beam[i]) : c.score <= beam[i][1].score
C5_Witness ==
    /\ BeamCall /\ pc = "done" /\ max_decode_length >= 2
    /\ \E i \in Batch : \A c \in Range(Complete(i)) : ~IsComplete(c)

\* C6: the greedy loop is left before max_decode_length iterations only when
\* every sequence of the batch has emitted <EOS>; otherwise it runs exactly
\* max_decode_length iterations.
C6_GreedyEarlyStop ==
    GreedyCall =>
        /\ Len(argmaxs) = t
        /\ t <= max_decode_length
        /\ pc = "greedy_loop" => t < max_decode_length
        /\ (pc # "greedy_loop" /\ t < max_decode_length) =>
               \A b \in Batch : \E s \in 1 .. t : argmaxs[s][b] = eos_index
C6_Witness ==
    /\ GreedyCall /\ pc = "greedy_cat" /\ batch_size = 2
    /\ 1 < t /\ t < max_decode_length

\* C7: decode_infer completes without raising for every max_decode_length >= 0
\* and returns at most max_decode_length tokens per utterance.
C7_DecodeCompletes ==
    /\ pc # "raised"
    /\ pc = "done" => \A b \in Batch : Len(ret[b]) <= max_decode_length

\* C8: with the CTC loss enabled, the lengths handed to the CTC loss are the
\* input lengths divided (floor) by 2 to the number of subsampling layers.
RECURSIVE Pow2(_)
Pow2(n) == IF n = 0 THEN 1 ELSE 2 * Pow2(n - 1)
C8_CtcLengthsRescaled ==
    (fpc # "call" /\ ctc_loss_weight > 0) =>
        /\ fpc = "done"
        /\ ctc_inputs_seq_len =
               [b \in DOMAIN inputs_seq_len |-> inputs_seq_len[b] \div Pow2(sum(subsample_list))]

\* C9: every candidate of a step that ends with <EOS> is moved to the complete
\* list of its utterance (up to the cap), and no complete list ever holds more
\* than beam_width hypotheses at the end of a step.
C9_CompleteListCap ==
    BeamCall =>
        \A i \in Batch :
            /\ Len(Complete(i)) <= beam_width
            /\ (pc = "beam_loop" /\ new_beam.ref[i] = i /\ Len(Complete(i)) < beam_width) =>
                   \A c \in Range(NewBeam(i)) : IsComplete(c) => c \in Range(Complete(i))

\* C10: whenever the beam of an utterance is replaced, the new beam holds at
\* most beam_width hypotheses, none of them ends with <EOS>, and they are the
\* highest-scoring candidates of the step not ending with <EOS>.
TopLive(b, cands, bw) ==
    LET live == {j \in DOMAIN cands : Last(cands[j].hyp) # eos_index}
    IN /\ Len(b) <= bw
       /\ Len(b) = Min(bw, Cardinality(live))
       /\ \A k \in DOMAIN b : Last(b[k].hyp) # eos_index
       /\ \A k \in DOMAIN b : \E j \in live : cands[j] = b[k]
       /\ \A k \in DOMAIN b : \A l \in DOMAIN b : k < l => b[k].score >= b[l].score
       /\ \A j \in live : cands[j] \notin Range(b) =>
              \A k \in DOMAIN b : b[k].score >= cands[j].score
ValidDistribution(d) == \A v \in Vocab : d[v] <= LOG_1
C11_ScoresAtMostZero ==
    (BeamCall /\ \A b \in Batch : ValidDistribution(inputs[b].first) /\ ValidDistribution(inputs[b].rest)) =>
        \A i \in Batch :
            /\ \A c \in Range(beam[i]) : c.score <= LOG_1
            /\ \A c \in Range(NewBeam(i)) : c.score <= LOG_1
            /\ \A c \in Range(Complete(i)) : c.score <= LOG_1

\* C12: configuration errors are raised by the constructor and never by a
\* forward or decode call: a model of an unsupported encoder type is never
\* constructed, and no call on a constructed model ends with the error of a
\* missing encoder final state (or any other configuration error).
ConfigurationErrors == {"NotImplementedError", "ValueError"}
C12_ConfigErrorsAtConstruction ==
    /\ (encoder_type \notin SupportedEncoderTypes /\ mpc # "new") => mpc = "ctor_raised"
    /\ mpc = "call_raised" => error \notin ConfigurationErrors

\* C13: _init_decoder_state gives the encoder's final state (in the decoder's
\* first layer) when state copy is enabled and the cell types are equal; in
\* every other case, with or without an encoder final state, it returns an
\* all-zero state.
AllZero(st) ==
    /\ \A l \in DOMAIN st.h : \A b \in DOMAIN st.h[l] : st.h[l][b] = 0
    /\ \A l \in DOMAIN st.c : \A b \in DOMAIN st.c[l] : st.c[l][b] = 0
C13_InitialDecoderState ==
    mpc \in {"state_done", "call_raised"} =>
        IF init_dec_state_with_enc_state /\ encoder_type = decoder_type
        THEN mpc = "state_done" => decoder_state.h[1] = encoder_final_state
        ELSE mpc = "state_done" /\ AllZero(decoder_state)

\* ---- claims about the training scripts
Count(seq, e) == Cardinality({k \in DOMAIN seq : seq[k] = e})
IterationDone == events # <<>>
\* the forward / backward / update calls of the last iteration, in order
IsUpdateCall(e) == e \in {"forward", "backward", "optimizer.step"}
UpdateCalls == SelectSeq(events, IsUpdateCall)

\* C14 (as stated): in every iteration of the training loop, of train.py with
\* and without mtl_per_batch and of train_hierarchical.py, optimizer.step() is
\* called exactly once, after the backward pass and before the next forward.
C14_OneOptimizerStepPerIteration ==
    IterationDone =>
        /\ Count(events, "next") = 1
        /\ UpdateCalls = <<"forward", "backward", "optimizer.step">>

\* C14 (amended): every iteration fetches one batch and calls optimizer.step()
\* once per training pass, after the backward of that pass and before the
\* next forward: one pass in train_hierarchical.py and in train.py without
\* mtl_per_batch, two passes (one per task) in train.py with mtl_per_batch.
PassesPerIteration == IF script = "train.py" /\ mtl_per_batch THEN 2 ELSE 1
C14_OneOptimizerStepPerPass ==
    IterationDone =>
        /\ Count(events, "next") = 1
        /\ Len(UpdateCalls) = 3 * PassesPerIteration
        /\ \A k \in DOMAIN UpdateCalls :
               UpdateCalls[k] = <<"forward", "backward", "optimizer.step">>[((k - 1) % 3) + 1]
C14_Witness ==
    /\ script = "train.py" /\ mtl_per_batch /\ IterationDone
    /\ Count(events, "optimizer.step") = 2 /\ step > InitialStep(script)

\* the history of the evaluated epochs: best metric before the k-th
\* evaluation, whether it improved, and the run of evaluations without a
\* strict improvement that ends with it
RECURSIVE BestBefore(_)
BestBefore(k) ==
    IF k = 1 THEN InitialBest(script) ELSE Min(BestBefore(k - 1), evals[k - 1])
ImprovedAt(k) == evals[k] < BestBefore(k)
RECURSIVE NotImprovedRun(_)
NotImprovedRun(k) ==
    IF k = 0 THEN 0 ELSE IF ImprovedAt(k) THEN 0 ELSE NotImprovedRun(k - 1) + 1
EarlyStoppingAsClaimed ==
    /\ not_improved_epoch = NotImprovedRun(Len(evals))
    /\ not_improved_epoch <= not_improved_patient_epoch
    /\ tpc = "early_stopped" <=>
           (evals # <<>> /\ NotImprovedRun(Len(evals)) = not_improved_patient_epoch)
    /\ \A k \in 1 .. (Len(evals) - 1) : NotImprovedRun(k) # not_improved_patient_epoch

\* C15 (as stated): the loop is left by early stopping exactly at the first
\* evaluated epoch whose run of evaluated epochs without strict improvement
\* equals not_improved_patient_epoch; the counter is 0 after an improving
\* epoch, grows by 1 at every other evaluated epoch and never exceeds the
\* patience value.
C15_EarlyStopping ==
    tpc # "main" => EarlyStoppingAsClaimed

\* C15 (amended): the same, for a patience value of at least 1.
C15_EarlyStoppingPositivePatience ==
    (tpc # "main" /\ not_improved_patient_epoch >= 1) => EarlyStoppingAsClaimed
C15_Witness ==
    /\ tpc = "early_stopped" /\ not_improved_patient_epoch = 2
    /\ Len(evals) = 3 /\ ImprovedAt(1)

\* the epoch whose boundary the last iteration handled
EndedEpoch == IF tpc = "loop" THEN epoch - 1 ELSE epoch
CheckpointSaved == "save_checkpoint" \in Range(events)
Evaluated == "evaluate" \in Range(events)
BestStoredIsMinimum == saved_best = BestBefore(Len(evals) + 1)

C17_WarmupDecayExclusive ==
    script = "train.py" => ~(warmup_lr_called /\ decay_lr_called)
C17_Witness ==
    /\ script = "train.py" /\ warmup_lr_called /\ Len(evals) >= 2 /\ tpc = "finished"

\* C18: with a --metric that is not implemented, train.py fails before any
\* training step is executed and before any dev batch is fetched or evaluated.
C18_UnimplementedMetricFailsFirst ==
    (script = "train.py" /\ metric \notin ImplementedMetrics) =>
        /\ tpc \notin {"finished", "early_stopped"}
        /\ \A e \in Range(events) : e \notin {"optimizer.step", "dev_next", "dev_forward"}

\* C19: for every ngpus >= 1 and print_step >= 1, train.py computes the dev
\* loss at least once in every window of print_step training batches, and the
\* trigger test never divides by zero.
C19_PeriodicDevLoss ==
    (script = "train.py" /\ ngpus >= 1 /\ print_step_given >= 1) =>
        /\ terror # "ZeroDivisionError"
        /\ batches_since_dev < print_step_given

\* C20: greedy decoding is deterministic: a second call with the same
\* parameters and the same input ends as the first call did and returns the
\* same tokens, whatever mode earlier calls left the model in.
C20_GreedyDeterministic ==
    (UseGreedy(beam_width) /\ run = 2 /\ pc \in {"done", "raised"}) =>
        /\ pc = first.pc
        /\ ret = first.ret

\* ------------------------------------------- claims about teacher forcing
\* the positions 0 .. T_out - 2 of the steps, as the code counts them
TrainSteps == 0 .. labels_max_seq_len - 2

AssertionErrors ==
    {"AssertionError: input_size must be divisible by 3",
     "AssertionError: splice must be the odd number"}
C23_ArgumentChecks ==
    mpc # "new" =>
        /\ (input_size % 3 # 0 \/ splice % 2 # 1) <=>
                (mpc = "ctor_raised" /\ error \in AssertionErrors /\ model = NoAttributes)
        /\ error \in AssertionErrors => mpc = "ctor_raised"

\* a construction refused only because of an even splice window
C23_Witness ==
    /\ mpc = "ctor_raised"
    /\ input_size % 3 = 0
    /\ splice = 2
    /\ error = "AssertionError: splice must be the odd number"

\* ------------------------------------- further claims about the decoders
\* the entries of list l that have score v, in the order of l
WithScore(l, v) == LET Has(c) == c.score = v IN SelectSeq(l, Has)

\* srt holds the entries of g by score descending, equal scores in g's order
StableDescending(srt, g) ==
    /\ Len(srt) = Len(g)
    /\ \A a, b \in 1 .. Len(srt) : a < b => srt[a].score >= srt[b].score
    /\ \A v \in {g[k].score : k \in 1 .. Len(g)} \cup {srt[k].score : k \in 1 .. Len(srt)} :
           WithScore(srt, v) = WithScore(g, v)

\* the candidate list of utterance i in the order it was generated (parents
\* in beam order, then token id ascending): the list the appends went to
Generated(i) == SubSeq(new_beam.obj[0], 1, Len(new_beam.obj[i]))

\* C24: at every beam step the candidate list of an utterance is ordered by
\* score descending and candidates of equal score keep their generation
\* order, so generation order decides the cut at beam_width among ties.
C24_StableCandidateOrder ==
    (BeamCall /\ new_beam # <<>>) =>
        \A i \in Batch :
            new_beam.ref[i] = i => StableDescending(new_beam.obj[i], Generated(i))

\* the first utterance (whose list holds its own candidates only) with two
\* live candidates of equal score, from different parents, on either side
\* of the cut at beam_width
C24_Witness ==
    /\ BeamCall
    /\ new_beam # <<>>
    /\ new_beam.ref[1] = 1
    /\ Len(new_beam.obj[1]) > beam_width
    /\ LET kept == new_beam.obj[1][beam_width]
           cut == new_beam.obj[1][beam_width + 1]
       IN  /\ kept.score = cut.score
           /\ IsLive(kept)
           /\ IsLive(cut)
           /\ kept.state # cut.state

\* C25: an utterance reaching its complete-list cap never holds back another
\* utterance: a time step of the loop ends only when every utterance whose
\* complete list is still below beam_width has had its live hypotheses
\* expanded in that time step (the complete list of an utterance being the
\* complete hypotheses that descend from it).
C25_NoUtteranceHeldBack ==
    [][(pc = "beam_loop" /\ t' = t + 1) =>
           \A j \in (i_batch + 1) .. batch_size :
               \/ beam[j] = <<>>
               \/ Cardinality(OwnComplete(j)) >= beam_width]_vars

\* C26: the previous-step attention weights fed into the decode step of a
\* hypothesis are those produced by the step that created that hypothesis
\* (the expansion of its parent; none for <SOS>), never weights produced
\* while another hypothesis of the beam was expanded.
C26_OwnAttentionWeights ==
    BeamCall =>
        \A k \in 1 .. Len(attention_fed) :
            LET hyp == attention_fed[k].hyp
            IN attention_fed[k].fed.hyp =
                   IF Len(hyp) = 1 THEN <<>> ELSE SubSeq(hyp, 1, Len(hyp) - 1)

\* C27: in the token matrix returned by greedy decoding no utterance has a
\* token other than <EOS> after its first <EOS>.
C27_OnlyEosAfterEos ==
    (GreedyCall /\ pc = "done") =>
        \A b \in Batch : \A j, k \in 1 .. Len(ret[b]) :
            (j < k /\ ret[b][j] = eos_index) => ret[b][k] = eos_index

\* the epoch the last iteration of train.py trained in
TrainedEpoch == IF tpc = "loop" /\ pos = 0 THEN epoch - 1 ELSE epoch
LoopExited == tpc \in {"finished", "early_stopped", "raised"}

\* C28: the training loop of train.py terminates: for every value of nepochs,
\* eval_start_epoch and not_improved_patient_epoch the loop eventually exits,
\* and it never trains for more than nepochs epochs.
C28_LoopTerminates ==
    /\ [](script = "train.py" => <>LoopExited)
    /\ []((script = "train.py" /\ IterationDone) => TrainedEpoch <= nepochs)

\* C29: in train.py the learning rate tracked by the loop equals the rate of
\* the optimizer in use at every training step, also after the optimizer is
\* replaced at convert_to_sgd_epoch.
C29_TrackedRateIsOptimizerRate ==
    (script = "train.py" /\ tpc = "loop") => learning_rate = optimizer_lr

\* C30: in train_hierarchical.py every training pass runs with the model in
\* training mode and every evaluation (the periodic dev loss, the per-epoch
\* dev WER, the final test evaluation of best_model) with the evaluated model
\* in evaluation mode, on every path through the loop.
C30_ModesMatchCalls ==
    script = "train_hierarchical.py" =>
        \A o \in observed_modes : o.training = (o.call = "forward")

====
